---- MODULE Spec2Model ----
(***************************************************************************)
(* Model of element_bot/matrix_bot_ai.py: the Matrix relay bot's startup   *)
(* sequence (main), the sync gate (sync_callback), the message router      *)
(* (message_callback), the rate-limited completion client                  *)
(* (get_ai_response) and the in-memory timers (set_timer, timer_handler).  *)
(*                                                                         *)
(* Everything runs on one asyncio event loop: an action of the model is    *)
(* the code a coroutine runs between two suspension points (await).        *)
(*                                                                         *)
(* Times count clock units of 1/Hz second and are kept relative to the     *)
(* current instant time.time(): where the program holds a timestamp t the  *)
(* model holds its age, time.time() - t, or the time left until it,        *)
(* t - time.time(), capped at the value from which the program no longer   *)
(* tells two ages apart. Tick lets one clock unit pass.                    *)
(***************************************************************************)
EXTENDS Integers, Sequences, FiniteSets, TLC

VARIABLES
    clock_phase,          \* time.time() modulo one second, in clock units
    mainPc,               \* position of main()
    startup_left,         \* time left of main's startup sleep
    joined,               \* join_response has a room_id
    client_user_id,       \* client.user_id
    initial_sync_done,
    since_connection,     \* time.time() - connection_timestamp
    cutoffWrites,         \* history: assignments made to connection_timestamp
    cutoffBy,             \* history: the path that made the last of them
    since_last_call,      \* time.time() - last_api_call
    in_cooldown,
    cooldown_left,        \* cooldown_until - time.time(), 0 once it has passed
    handlers,             \* message_callback invocations, in delivery order
    timers,               \* timer_task coroutines, in creation order
    active_timers,        \* the registry: timer id -> task
    particle_configured   \* PARTICLE_DEVICE_ID and PARTICLE_ACCESS_TOKEN are set

vars == <<clock_phase, mainPc, startup_left, joined, client_user_id,
          initial_sync_done, since_connection, cutoffWrites, cutoffBy, since_last_call,
          in_cooldown, cooldown_left, handlers, timers, active_timers,
          particle_configured>>

----------------------------------------------------------------------------
\* Bounds of the model

\* message events delivered to message_callback
MaxEvents == 2
\* timers created
MaxTimers == 2

----------------------------------------------------------------------------
\* Time and program constants

\* clock units per second
Hz == 2
MsPerUnit == 1000 \div Hz

min_delay_between_calls == 3 * Hz
jitter == 2 * Hz
cooldown_period == 60 * Hz
max_retries == 5
retry_delay == 2 * Hz

\* random.uniform(0, jitter) and random.uniform(0, 2), at clock resolution
JitterDraws == 0..jitter
BackoffDraws == 0..(2 * Hz)
\* random.uniform(5, 10)
StartupDraws == {5 * Hz, 10 * Hz}
\* random.randint(1000, 9999)
SuffixDraws == {1000, 9999}

\* ages from which the program no longer tells two timestamps apart
CallAgeCap == min_delay_between_calls + jitter
CutoffAgeCap == 2
\* the age of a timestamp older than the process (an event of the backlog) and
\* of the timestamp 0 (connection_timestamp before it is set)
BacklogAge == CutoffAgeCap + 1
NeverAge == CutoffAgeCap + 2

Bot == "@steely-dan:matrix.org"
Senders == {Bot, "@alice:matrix.org"}
Rooms == {"!bots", "!other"}
\* age (ms) of a delivered event's server timestamp at delivery: stamped by a
\* server clock 1 ms ahead, now, one clock unit ago, before the process started
EventAges == {0 - 1, 0, MsPerUnit, BacklogAge * MsPerUnit}

Min(a, b) == IF a < b THEN a ELSE b
Max(a, b) == IF a > b THEN a ELSE b

Pow2(n) == IF n = 0 THEN 1 ELSE IF n = 1 THEN 2 ELSE IF n = 2 THEN 4
           ELSE IF n = 3 THEN 8 ELSE 16

----------------------------------------------------------------------------
\* Completion replies and the timer directive pattern

IsSpace(c) == c \in {" ", "\t", "\n"}
IsDigit(c) == c \in {"0", "1", "2", "3", "4", "5", "6", "7", "8", "9"}
DigitVal(c) == CASE c = "0" -> 0 [] c = "1" -> 1 [] c = "2" -> 2 [] c = "3" -> 3
                 [] c = "4" -> 4 [] c = "5" -> 5 [] c = "6" -> 6 [] c = "7" -> 7
                 [] c = "8" -> 8 [] c = "9" -> 9

RECURSIVE LStrip(_)
LStrip(s) == IF s # <<>> /\ IsSpace(Head(s)) THEN LStrip(Tail(s)) ELSE s

RECURSIVE RStrip(_)
RStrip(s) == IF s # <<>> /\ IsSpace(s[Len(s)]) THEN RStrip(SubSeq(s, 1, Len(s) - 1)) ELSE s

RECURSIVE ParseInt(_)
ParseInt(ds) == IF ds = <<>> THEN 0
                ELSE 10 * ParseInt(SubSeq(ds, 1, Len(ds) - 1)) + DigitVal(ds[Len(ds)])

TimePrefix == <<"{", "\"", "t", "i", "m", "e", "\"", ":">>

\* re.match(r'^\s*{"time":(\d+)}\s*$', text): the digits of group 1, or <<>> for no match
TimerDigits(text) ==
    LET core == RStrip(LStrip(text))
        n == Len(core)
        p == Len(TimePrefix)
    IN IF /\ n >= p + 2
          /\ SubSeq(core, 1, p) = TimePrefix
          /\ core[n] = "}"
          /\ \A i \in (p + 1)..(n - 1) : IsDigit(core[i])
       THEN SubSeq(core, p + 1, n - 1)
       ELSE <<>>

TextPizza == <<"h", "i">>
TextTimer0 == TimePrefix \o <<"0", "}">>
TextTimer1 == TimePrefix \o <<"1", "}">>
\* response.choices[0].message.content of a successful completion
ApiTexts == {TextPizza, TextTimer0, TextTimer1}

\* '{"time":900}', '  {"time": 30}  ', 'I like pizza', '{"time":900} extra text'
Text900 == TimePrefix \o <<"9", "0", "0", "}">>
TextSpaced30 == <<" ", " ">> \o TimePrefix \o <<" ", "3", "0", "}", " ", " ">>
TextILikePizza == <<"I", " ", "l", "i", "k", "e", " ", "p", "i", "z", "z", "a">>
Text900Extra == Text900 \o <<" ", "e", "x", "t", "r", "a", " ", "t", "e", "x", "t">>
ClassifyTexts == {Text900, TextSpaced30, TextILikePizza, Text900Extra}

\* str(n) of a natural number
DigitChar(d) == CASE d = 0 -> "0" [] d = 1 -> "1" [] d = 2 -> "2" [] d = 3 -> "3"
                  [] d = 4 -> "4" [] d = 5 -> "5" [] d = 6 -> "6" [] d = 7 -> "7"
                  [] d = 8 -> "8" [] d = 9 -> "9"

RECURSIVE IntStr(_)
IntStr(n) == IF n < 10 THEN <<DigitChar(n)>>
             ELSE IntStr(n \div 10) \o <<DigitChar(n % 10)>>

\* a formatter that converts the count to minutes
format_time_duration_Minutes(seconds) ==
    IntStr(seconds \div 60) \o <<" ", "m", "i", "n", "u", "t", "e", "s">>

\* f"{seconds} seconds"
format_time_duration(seconds) ==
    IntStr(seconds) \o <<" ", "s", "e", "c", "o", "n", "d", "s">>

----------------------------------------------------------------------------
\* State

NoBody == [kind |-> "none"]

NoHandler == [pc |-> "none", room |-> "", sender |-> "", old |-> FALSE, live |-> FALSE,
              sleep_left |-> 0, attempt |-> 0, nreq |-> 0, nsend |-> 0, body |-> NoBody,
              timer |-> 0]

Running == mainPc \notin {"exited", "crashed"}

\* call_particle_function runs requests.post synchronously: while a timer
\* task is inside it no other coroutine of the loop runs
LoopBlocked == \E t \in DOMAIN timers : timers[t].pc = "particle"

LoopFree == Running /\ ~LoopBlocked

Delivered == {h \in DOMAIN handlers : handlers[h].pc # "none"}

Init ==
    /\ clock_phase = 0
    /\ mainPc = "start"
    /\ startup_left = 0
    /\ joined = FALSE
    /\ client_user_id = ""
    /\ initial_sync_done = FALSE
    /\ since_connection = NeverAge
    /\ cutoffWrites = 0
    /\ cutoffBy = "none"
    /\ since_last_call = CallAgeCap
    /\ in_cooldown = FALSE
    /\ cooldown_left = 0
    /\ handlers = [h \in 1..MaxEvents |-> NoHandler]
    /\ timers = <<>>
    /\ active_timers = {}
    /\ particle_configured = FALSE

\* the bot some time after a successful startup: logged in, joined, the initial
\* sync done, main inside sync_forever
InitLive ==
    /\ clock_phase = 0
    /\ mainPc = "forever"
    /\ startup_left = 0
    /\ joined = TRUE
    /\ client_user_id = Bot
    /\ initial_sync_done = TRUE
    /\ since_connection = CutoffAgeCap
    /\ cutoffWrites = 1
    /\ cutoffBy = "main"
    /\ since_last_call = CallAgeCap
    /\ in_cooldown = FALSE
    /\ cooldown_left = 0
    /\ handlers = [h \in 1..MaxEvents |-> NoHandler]
    /\ timers = <<>>
    /\ active_timers = {}
    /\ particle_configured = FALSE

\* the same, the last completion call made some time ago
InitRecentCall ==
    \E age \in 0..CallAgeCap :
        /\ clock_phase = 0
        /\ mainPc = "forever"
        /\ startup_left = 0
        /\ joined = TRUE
        /\ client_user_id = Bot
        /\ initial_sync_done = TRUE
        /\ since_connection = CutoffAgeCap
        /\ cutoffWrites = 1
        /\ cutoffBy = "main"
        /\ since_last_call = age
        /\ in_cooldown = FALSE
        /\ cooldown_left = 0
        /\ handlers = [h \in 1..MaxEvents |-> NoHandler]
        /\ timers = <<>>
        /\ active_timers = {}
        /\ particle_configured = FALSE

\* the same, with or without the Particle device configured
InitTimer ==
    \E configured \in BOOLEAN :
        /\ clock_phase = 0
        /\ mainPc = "forever"
        /\ startup_left = 0
        /\ joined = TRUE
        /\ client_user_id = Bot
        /\ initial_sync_done = TRUE
        /\ since_connection = CutoffAgeCap
        /\ cutoffWrites = 1
        /\ cutoffBy = "main"
        /\ since_last_call = CallAgeCap
        /\ in_cooldown = FALSE
        /\ cooldown_left = 0
            /\ handlers = [h \in 1..MaxEvents |-> NoHandler]
        /\ timers = <<>>
        /\ active_timers = {}
        /\ particle_configured = configured

clockVars == <<clock_phase>>
rateVars == <<since_last_call, in_cooldown, cooldown_left>>
syncVars == <<initial_sync_done, since_connection, cutoffWrites, cutoffBy>>
mainVars == <<mainPc, startup_left, joined, client_user_id>>
timerVars == <<timers, active_timers>>

----------------------------------------------------------------------------
\* main()

\* lines 282-284: the startup sleep is requested
MainStart ==
    /\ LoopFree
    /\ mainPc = "start"
    /\ \E d \in StartupDraws : startup_left' = d
    /\ mainPc' = "startup_sleep"
    /\ UNCHANGED <<clockVars, joined, client_user_id, syncVars, rateVars, handlers,
                   timerVars, particle_configured>>

\* lines 284-286: the sleep is over and client.login is called
MainWake ==
    /\ LoopFree
    /\ mainPc = "startup_sleep"
    /\ startup_left = 0
    /\ mainPc' = "login"
    /\ UNCHANGED <<clockVars, startup_left, joined, client_user_id, syncVars, rateVars,
                   handlers, timerVars, particle_configured>>

\* lines 286-292: client.login returns
MainLogin(ok) ==
    /\ LoopFree
    /\ mainPc = "login"
    /\ IF ok
       THEN client_user_id' = Bot /\ mainPc' = "join"
       ELSE client_user_id' = client_user_id /\ mainPc' = "exited"
    /\ UNCHANGED <<clockVars, startup_left, joined, syncVars, rateVars, handlers,
                   timerVars, particle_configured>>

\* lines 294-307: client.join returns, the callbacks are registered and the
\* initial sync is started
MainJoin(ok) ==
    /\ LoopFree
    /\ mainPc = "join"
    /\ joined' = ok
    /\ mainPc' = "sync"
    /\ UNCHANGED <<clockVars, startup_left, client_user_id, syncVars, rateVars,
                   handlers, timerVars, particle_configured>>

\* lines 310-313: markSyncComplete from the startup sequence
PostSyncCheck ==
    IF ~initial_sync_done
    THEN /\ initial_sync_done' = TRUE
         /\ since_connection' = 0
         /\ cutoffWrites' = cutoffWrites + 1
         /\ cutoffBy' = "main"
    ELSE UNCHANGED syncVars

\* lines 307-324: client.sync returns; the post-sync check; join_response.room_id
\* is read (AttributeError when the join failed) and the startup message is sent
MainSyncReturn ==
    /\ LoopFree
    /\ mainPc = "sync"
    /\ PostSyncCheck
    /\ mainPc' = IF joined THEN "startup_send" ELSE "crashed"
    /\ UNCHANGED <<clockVars, startup_left, joined, client_user_id, rateVars,
                   handlers, timerVars, particle_configured>>

\* lines 317-327: the startup room_send returns (or raises) and sync_forever starts
MainStartupSent(ok) ==
    /\ LoopFree
    /\ mainPc = "startup_send"
    /\ mainPc' = IF ok THEN "forever" ELSE "crashed"
    /\ UNCHANGED <<clockVars, startup_left, joined, client_user_id, syncVars,
                   rateVars, handlers, timerVars, particle_configured>>

\* a sync is in progress with the callbacks registered
Syncing == mainPc \in {"sync", "forever"}

----------------------------------------------------------------------------
\* sync_callback(response), lines 267-276

\* a callback that sets the cutoff on every sync response
IsInitialSyncResponse_Always(isSync) == isSync

\* line 271
IsInitialSyncResponse(isSync) == isSync /\ ~initial_sync_done

SyncCallback(isSync) ==
    /\ LoopFree
    /\ Syncing
    /\ IF IsInitialSyncResponse(isSync)
       THEN /\ initial_sync_done' = TRUE
            /\ since_connection' = 0
            /\ cutoffWrites' = cutoffWrites + 1
            /\ cutoffBy' = "sync_callback"
       ELSE UNCHANGED syncVars
    /\ UNCHANGED <<clockVars, mainVars, rateVars, handlers, timerVars,
                   particle_configured>>

----------------------------------------------------------------------------
\* set_timer(seconds, room_id), lines 135-151

\* f"timer_{int(time.time())}_{random.randint(1000, 9999)}": two ids are equal
\* when made within the same clock second with the same suffix. An id is named
\* by the first timer that got it.
TimerId(suffix) ==
    LET same == {u \in DOMAIN timers : timers[u].same_second /\ timers[u].suffix = suffix}
    IN IF same = {} THEN Len(timers) + 1
       ELSE timers[CHOOSE u \in same : TRUE].id

\* a create_task that runs a task of 0 seconds into its firing at once
NewTimerTask_Eager(seconds, room_id, timer_id, suffix) ==
    [id |-> timer_id, suffix |-> suffix, same_second |-> TRUE, room |-> room_id,
     sleep_left |-> seconds * Hz,
     pc |-> IF seconds = 0 THEN "notifying" ELSE "sleeping",
     nsend |-> IF seconds = 0 THEN 1 ELSE 0]

\* the timer_task coroutine created at line 146
NewTimerTask(seconds, room_id, timer_id, suffix) ==
    [id |-> timer_id, suffix |-> suffix, same_second |-> TRUE, room |-> room_id,
     sleep_left |-> seconds * Hz, pc |-> "sleeping", nsend |-> 0]

\* active_timers[timer_id] = task
StoreTask(registry, timer_id, t) ==
    {e \in registry : e.id # timer_id} \cup {[id |-> timer_id, task |-> t]}

----------------------------------------------------------------------------
\* message_callback(room, event), lines 210-261, and get_ai_response, lines 153-208

\* a router that handles events before the initial sync is done
SyncPending_Ignored == FALSE

\* line 214
SyncPending == ~initial_sync_done

\* a router that does not compare the sender with its own identity
SkipSelf_Never(sender) == FALSE

\* line 222
SkipSelf(sender) == sender = client_user_id

\* a router that takes an event stamped exactly at the cutoff for a new one
SkipOld_Strict(event_age_ms) == event_age_ms > since_connection * MsPerUnit

\* lines 219 and 226: event.server_timestamp / 1000 <= connection_timestamp
SkipOld(event_age_ms) == event_age_ms >= since_connection * MsPerUnit

\* a cooldown check that does not look at the deadline
CooldownActive_NoDeadline == in_cooldown

\* line 160
CooldownActive == in_cooldown /\ cooldown_left > 0

\* a retry loop that backs off after its last attempt too
RetriesLeft_Always(attempt) == attempt < max_retries

\* line 195
RetriesLeft(attempt) == attempt < max_retries - 1

\* lines 236-260: the reply is classified, a timer is set for a directive, and
\* client.room_send is called with the outbound text
Respond(h, rec, response) ==
    LET digits == IF response.kind = "api_text" THEN TimerDigits(response.text) ELSE <<>>
    IN IF digits # <<>>
       THEN \E suffix \in SuffixDraws :
              LET timer_seconds == ParseInt(digits)
                  timer_id == TimerId(suffix)
                  t == Len(timers) + 1
              IN /\ Len(timers) < MaxTimers
                 /\ timers' = Append(timers,
                        NewTimerTask(timer_seconds, rec.room, timer_id, suffix))
                 /\ active_timers' = StoreTask(active_timers, timer_id, t)
                 /\ handlers' = [handlers EXCEPT ![h] =
                        [rec EXCEPT !.pc = "sending", !.attempt = 0, !.nsend = @ + 1,
                                    !.timer = t,
                                    !.body = [kind |-> "timer_set",
                                              text |-> format_time_duration(timer_seconds)]]]
       ELSE /\ handlers' = [handlers EXCEPT ![h] =
                   [rec EXCEPT !.pc = "sending", !.attempt = 0, !.nsend = @ + 1,
                               !.body = response]]
            /\ UNCHANGED timerVars

\* a rate limiter that stamps last_api_call before it waits
AiEntry_StampFirst(h, rec) ==
    IF CooldownActive
    THEN /\ Respond(h, rec, [kind |-> "cooldown"])
         /\ UNCHANGED rateVars
    ELSE /\ in_cooldown' = FALSE
         /\ UNCHANGED <<cooldown_left, timerVars>>
         /\ since_last_call' = 0
         /\ \E r \in JitterDraws :
              IF since_last_call < min_delay_between_calls + r
              THEN handlers' = [handlers EXCEPT ![h] =
                      [rec EXCEPT !.pc = "rate_wait",
                                  !.sleep_left = min_delay_between_calls + r - since_last_call]]
              ELSE handlers' = [handlers EXCEPT ![h] =
                      [rec EXCEPT !.pc = "api", !.attempt = 0, !.nreq = @ + 1]]

\* lines 157-176 (and 185, the first request, when no wait is needed)
AiEntry(h, rec) ==
    IF CooldownActive
    THEN /\ Respond(h, rec, [kind |-> "cooldown"])
         /\ UNCHANGED rateVars
    ELSE /\ in_cooldown' = FALSE
         /\ UNCHANGED <<cooldown_left, timerVars>>
         /\ \E r \in JitterDraws :
              LET time_since_last_call == since_last_call
                  required_delay == min_delay_between_calls + r
              IN IF time_since_last_call < required_delay
                 THEN /\ handlers' = [handlers EXCEPT ![h] =
                             [rec EXCEPT !.pc = "rate_wait",
                                         !.sleep_left = required_delay - time_since_last_call]]
                      /\ UNCHANGED since_last_call
                 ELSE /\ handlers' = [handlers EXCEPT ![h] =
                             [rec EXCEPT !.pc = "api", !.attempt = 0, !.nreq = @ + 1]]
                      /\ since_last_call' = 0

\* lines 210-234: an event is delivered to message_callback
Deliver(room, sender, event_age_ms) ==
    LET h == Cardinality(Delivered) + 1
        \* history: whether the router was Live, and the event at or before the cutoff
        rec == [NoHandler EXCEPT !.room = room, !.sender = sender,
                                 !.live = initial_sync_done,
                                 !.old = (event_age_ms >= since_connection * MsPerUnit)]
    IN /\ LoopFree
       /\ Syncing
       /\ h <= MaxEvents
       /\ IF SyncPending
          THEN /\ handlers' = [handlers EXCEPT ![h] = [rec EXCEPT !.pc = "dropped"]]
               /\ UNCHANGED <<rateVars, timerVars>>
          ELSE IF SkipSelf(rec.sender)
          THEN /\ handlers' = [handlers EXCEPT ![h] = [rec EXCEPT !.pc = "skip_self"]]
               /\ UNCHANGED <<rateVars, timerVars>>
          ELSE IF SkipOld(event_age_ms)
          THEN /\ handlers' = [handlers EXCEPT ![h] = [rec EXCEPT !.pc = "skip_old"]]
               /\ UNCHANGED <<rateVars, timerVars>>
          ELSE AiEntry(h, rec)
       /\ UNCHANGED <<clockVars, mainVars, syncVars, particle_configured>>

\* lines 173-185: the rate-limit sleep is over, last_api_call is set and the
\* first request is issued
RateWake(h) ==
    /\ LoopFree
    /\ handlers[h].pc = "rate_wait"
    /\ handlers[h].sleep_left = 0
    /\ since_last_call' = 0
    /\ handlers' = [handlers EXCEPT ![h].pc = "api", ![h].attempt = 0, ![h].nreq = @ + 1]
    /\ UNCHANGED <<clockVars, mainVars, syncVars, in_cooldown, cooldown_left,
                   timerVars, particle_configured>>

\* lines 185-192: the request returns a completion
ApiSuccess(h, text) ==
    /\ LoopFree
    /\ handlers[h].pc = "api"
    /\ Respond(h, handlers[h], [kind |-> "api_text", text |-> text])
    /\ UNCHANGED <<clockVars, mainVars, syncVars, rateVars, particle_configured>>

\* lines 194-204: the request fails with RateLimitError
ApiRateLimit(h) ==
    /\ LoopFree
    /\ handlers[h].pc = "api"
    /\ IF RetriesLeft(handlers[h].attempt)
       THEN /\ \E j \in BackoffDraws :
                 handlers' = [handlers EXCEPT ![h].pc = "backoff",
                     ![h].sleep_left = retry_delay * Pow2(handlers[h].attempt) + j]
            /\ UNCHANGED <<rateVars, timerVars>>
       ELSE /\ in_cooldown' = TRUE
            /\ cooldown_left' = cooldown_period
            /\ UNCHANGED since_last_call
            /\ Respond(h, handlers[h], [kind |-> "cooldown_entry"])
    /\ UNCHANGED <<clockVars, mainVars, syncVars, particle_configured>>

\* lines 198 and 182-185: the backoff sleep is over and the next request is
\* issued; a loop that ran out of attempts would return None, and re.match
\* (line 237) raise on it
BackoffWake(h) ==
    /\ LoopFree
    /\ handlers[h].pc = "backoff"
    /\ handlers[h].sleep_left = 0
    /\ IF handlers[h].attempt + 1 < max_retries
       THEN handlers' = [handlers EXCEPT ![h].pc = "api", ![h].attempt = @ + 1,
                                         ![h].nreq = @ + 1]
       ELSE handlers' = [handlers EXCEPT ![h].pc = "raised", ![h].attempt = 0,
                                         ![h].body = [kind |-> "None"]]
    /\ UNCHANGED <<clockVars, mainVars, syncVars, rateVars, timerVars,
                   particle_configured>>

\* a handler that treats every failure as the last rate-limit failure
ApiError_Cooldown(h) ==
    /\ LoopFree
    /\ handlers[h].pc = "api"
    /\ in_cooldown' = TRUE
    /\ cooldown_left' = cooldown_period
    /\ UNCHANGED since_last_call
    /\ Respond(h, handlers[h], [kind |-> "api_error"])
    /\ UNCHANGED <<clockVars, mainVars, syncVars, particle_configured>>

\* lines 206-208: the request fails with another exception
ApiError(h) ==
    /\ LoopFree
    /\ handlers[h].pc = "api"
    /\ Respond(h, handlers[h], [kind |-> "api_error"])
    /\ UNCHANGED <<clockVars, mainVars, syncVars, rateVars, particle_configured>>

\* a handler that sends its reply again when the send fails
HandlerSent_Retry(h, ok) ==
    /\ LoopFree
    /\ handlers[h].pc = "sending"
    /\ IF ok
       THEN handlers' = [handlers EXCEPT ![h].pc = "done"]
       ELSE handlers' = [handlers EXCEPT ![h].nsend = @ + 1]
    /\ UNCHANGED <<clockVars, mainVars, syncVars, rateVars, timerVars,
                   particle_configured>>

\* lines 256-261: client.room_send returns, or raises out of message_callback
HandlerSent(h, ok) ==
    /\ LoopFree
    /\ handlers[h].pc = "sending"
    /\ handlers' = [handlers EXCEPT ![h].pc = IF ok THEN "done" ELSE "raised"]
    /\ UNCHANGED <<clockVars, mainVars, syncVars, rateVars, timerVars,
                   particle_configured>>

----------------------------------------------------------------------------
\* timer_task and timer_handler(room_id, timer_id), lines 111-133 and 141-143

\* a timer_handler that leaves its entry in the registry
RemoveTimer_Keep(registry, timer_id) == registry

\* lines 117-118
RemoveTimer(registry, timer_id) == {e \in registry : e.id # timer_id}

\* lines 142-122: the sleep is over, the entry is removed and
\* call_particle_function is entered; without device credentials it returns at
\* once (lines 79-81) and the room notification is sent
TimerExpire(t) ==
    /\ LoopFree
    /\ timers[t].pc = "sleeping"
    /\ timers[t].sleep_left = 0
    /\ active_timers' = RemoveTimer(active_timers, timers[t].id)
    /\ IF particle_configured
       THEN timers' = [timers EXCEPT ![t].pc = "particle"]
       ELSE timers' = [timers EXCEPT ![t].pc = "notifying", ![t].nsend = @ + 1]
    /\ UNCHANGED <<clockVars, mainVars, syncVars, rateVars, handlers,
                   particle_configured>>

ParticleOutcomes == {"ok", "http_error", "exception"}

\* a timer_handler that gives up when the device call raises
ParticleReturn_Abort(t, outcome) ==
    /\ Running
    /\ timers[t].pc = "particle"
    /\ IF outcome = "exception"
       THEN timers' = [timers EXCEPT ![t].pc = "done"]
       ELSE timers' = [timers EXCEPT ![t].pc = "notifying", ![t].nsend = @ + 1]
    /\ UNCHANGED <<clockVars, mainVars, syncVars, rateVars, handlers, active_timers,
                   particle_configured>>

\* lines 96-129: requests.post returns or raises, and the room notification is sent
ParticleReturn(t, outcome) ==
    /\ Running
    /\ timers[t].pc = "particle"
    /\ timers' = [timers EXCEPT ![t].pc = "notifying", ![t].nsend = @ + 1]
    /\ UNCHANGED <<clockVars, mainVars, syncVars, rateVars, handlers, active_timers,
                   particle_configured>>

\* lines 126-133: client.room_send returns, or raises and is logged
TimerNotified(t, ok) ==
    /\ LoopFree
    /\ timers[t].pc = "notifying"
    /\ timers' = [timers EXCEPT ![t].pc = IF ok THEN "done" ELSE "send_failed"]
    /\ UNCHANGED <<clockVars, mainVars, syncVars, rateVars, handlers, active_timers,
                   particle_configured>>

----------------------------------------------------------------------------
\* The clock

\* asyncio.sleep (lines 142, 173, 198, 284): a sleep that is over and whose
\* coroutine the loop is free to resume
SleepOver ==
    /\ LoopFree
    /\ \/ mainPc = "startup_sleep" /\ startup_left = 0
       \/ \E h \in DOMAIN handlers :
             handlers[h].pc \in {"rate_wait", "backoff"} /\ handlers[h].sleep_left = 0
       \/ \E t \in DOMAIN timers : timers[t].pc = "sleeping" /\ timers[t].sleep_left = 0

\* one clock unit passes; the loop resumes the coroutines whose sleep is over
\* before it does
Tick ==
    /\ Running
    /\ ~SleepOver
    /\ clock_phase' = (clock_phase + 1) % Hz
    /\ startup_left' = Max(startup_left - 1, 0)
    /\ since_connection' = IF since_connection = NeverAge THEN NeverAge
                           ELSE Min(since_connection + 1, CutoffAgeCap)
    /\ since_last_call' = Min(since_last_call + 1, CallAgeCap)
    /\ cooldown_left' = Max(cooldown_left - 1, 0)
    /\ handlers' = [h \in DOMAIN handlers |->
                      [handlers[h] EXCEPT !.sleep_left = Max(@ - 1, 0)]]
    /\ timers' = [t \in DOMAIN timers |->
                    [timers[t] EXCEPT
                       !.sleep_left = Max(@ - 1, 0),
                       !.same_second = @ /\ clock_phase + 1 < Hz,
                       !.suffix = IF clock_phase + 1 < Hz THEN @ ELSE 0]]
    /\ UNCHANGED <<mainPc, joined, client_user_id, initial_sync_done, cutoffWrites,
                   cutoffBy, in_cooldown, active_timers, particle_configured>>

----------------------------------------------------------------------------

\* The startup sequence, the sync gate and the router, with a completion API
\* that answers with plain text or fails with an error other than a rate limit.
Next ==
    \/ MainStart
    \/ MainWake
    \/ \E ok \in BOOLEAN : MainLogin(ok)
    \/ \E ok \in BOOLEAN : MainJoin(ok)
    \/ MainSyncReturn
    \/ \E ok \in BOOLEAN : MainStartupSent(ok)
    \/ \E isSync \in BOOLEAN : SyncCallback(isSync)
    \/ \E room \in Rooms, sender \in Senders, age \in EventAges : Deliver(room, sender, age)
    \/ \E h \in DOMAIN handlers : RateWake(h)
    \/ \E h \in DOMAIN handlers : ApiSuccess(h, TextPizza)
    \/ \E h \in DOMAIN handlers : ApiError(h)
    \/ \E h \in DOMAIN handlers, ok \in BOOLEAN : HandlerSent(h, ok)
    \/ Tick

Spec == Init /\ [][Next]_vars

\* The live bot with a completion API that answers with plain text or with timer
\* directives: the router and the timers.
NextTimer ==
    \/ \E room \in Rooms, sender \in Senders, age \in EventAges : Deliver(room, sender, age)
    \/ \E h \in DOMAIN handlers : RateWake(h)
    \/ \E h \in DOMAIN handlers, text \in ApiTexts : ApiSuccess(h, text)
    \/ \E h \in DOMAIN handlers, ok \in BOOLEAN : HandlerSent(h, ok)
    \/ \E t \in DOMAIN timers : TimerExpire(t)
    \/ \E t \in DOMAIN timers, outcome \in ParticleOutcomes : ParticleReturn(t, outcome)
    \/ \E t \in DOMAIN timers, ok \in BOOLEAN : TimerNotified(t, ok)
    \/ Tick

TimerSpec == InitTimer /\ [][NextTimer]_vars

\* The live bot answering new events of other users with timer directives, its
\* confirmations delivered: the timers from their creation to their notification.
DirectiveTexts == {TextTimer0, TextTimer1}

NextFire ==
    \/ \E room \in Rooms : Deliver(room, "@alice:matrix.org", 0)
    \/ \E h \in DOMAIN handlers : RateWake(h)
    \/ \E h \in DOMAIN handlers, text \in DirectiveTexts : ApiSuccess(h, text)
    \/ \E h \in DOMAIN handlers : HandlerSent(h, TRUE)
    \/ \E t \in DOMAIN timers : TimerExpire(t)
    \/ \E t \in DOMAIN timers, outcome \in ParticleOutcomes : ParticleReturn(t, outcome)
    \/ \E t \in DOMAIN timers, ok \in BOOLEAN : TimerNotified(t, ok)
    \/ Tick

\* the next step of a timer task: it is resumed after its sleep, its device
\* call comes back, or its room send comes back
TimerStep(t) ==
    /\ t \in DOMAIN timers
    /\ \/ TimerExpire(t)
       \/ \E outcome \in ParticleOutcomes : ParticleReturn(t, outcome)
       \/ \E ok \in BOOLEAN : TimerNotified(t, ok)

\* with time that passes and an event loop that resumes the coroutines whose
\* sleep is over, and with device calls and room sends that come back
FairFireSpec ==
    /\ InitTimer /\ [][NextFire]_vars
    /\ WF_vars(Tick)
    /\ \A h \in 1..MaxEvents : WF_vars(RateWake(h))
    /\ \A t \in 1..MaxTimers : WF_vars(TimerStep(t))

\* The live bot with a completion API that answers with plain text, fails with a
\* rate limit or fails with another error: the completion client, its retries
\* and its cooldown.
NextRetry ==
    \/ \E sender \in Senders, age \in EventAges : Deliver("!bots", sender, age)
    \/ \E h \in DOMAIN handlers : RateWake(h)
    \/ \E h \in DOMAIN handlers : ApiSuccess(h, TextPizza)
    \/ \E h \in DOMAIN handlers : ApiRateLimit(h)
    \/ \E h \in DOMAIN handlers : BackoffWake(h)
    \/ \E h \in DOMAIN handlers : ApiError(h)
    \/ \E h \in DOMAIN handlers, ok \in BOOLEAN : HandlerSent(h, ok)
    \/ Tick

RetrySpec == InitLive /\ [][NextRetry]_vars

\* the next step of a call of get_ai_response: it is resumed after a sleep, or
\* its completion request returns or raises
CallStep(h) ==
    \/ RateWake(h)
    \/ BackoffWake(h)
    \/ ApiSuccess(h, TextPizza)
    \/ ApiRateLimit(h)
    \/ ApiError(h)

\* RetrySpec with time that passes and an event loop that resumes the
\* coroutines whose sleep is over, and with completion requests that come back
FairRetrySpec ==
    /\ RetrySpec
    /\ WF_vars(Tick)
    /\ \A h \in 1..MaxEvents : WF_vars(CallStep(h))

\* The live bot answering its first event, with a completion API that answers
\* with directives and with texts that resemble them: the reply classification.
NextClassify ==
    \/ \E room \in Rooms, sender \in Senders, age \in EventAges :
          Delivered = {} /\ Deliver(room, sender, age)
    \/ \E h \in DOMAIN handlers, text \in ClassifyTexts : ApiSuccess(h, text)
    \/ \E h \in DOMAIN handlers, ok \in BOOLEAN : HandlerSent(h, ok)
    \/ \E t \in DOMAIN timers : TimerExpire(t)
    \/ \E t \in DOMAIN timers, ok \in BOOLEAN : TimerNotified(t, ok)
    \/ Tick

ClassifySpec == InitLive /\ [][NextClassify]_vars

\* The live bot answering eligible events of one room, with a completion API
\* that answers with plain text or a directive, fails with a rate limit or fails
\* with another error: every way from an eligible event to its reply.
ReplyTexts == {TextPizza, TextTimer0}

NextReply ==
    \/ Deliver("!bots", "@alice:matrix.org", 0)
    \/ \E h \in DOMAIN handlers : RateWake(h)
    \/ \E h \in DOMAIN handlers, text \in ReplyTexts : ApiSuccess(h, text)
    \/ \E h \in DOMAIN handlers : ApiRateLimit(h)
    \/ \E h \in DOMAIN handlers : BackoffWake(h)
    \/ \E h \in DOMAIN handlers : ApiError(h)
    \/ \E h \in DOMAIN handlers, ok \in BOOLEAN : HandlerSent(h, ok)
    \/ \E t \in DOMAIN timers : TimerExpire(t)
    \/ \E t \in DOMAIN timers : TimerNotified(t, TRUE)
    \/ Tick

\* the next step of a call of get_ai_response in this environment
ReplyStep(h) ==
    \/ RateWake(h)
    \/ BackoffWake(h)
    \/ \E text \in ReplyTexts : ApiSuccess(h, text)
    \/ ApiRateLimit(h)
    \/ ApiError(h)

\* with time that passes and an event loop that resumes the coroutines whose
\* sleep is over, and with completion requests and timer sends that come back
FairReplySpec ==
    /\ InitLive /\ [][NextReply]_vars
    /\ WF_vars(Tick)
    /\ \A h \in 1..MaxEvents : WF_vars(ReplyStep(h))
    /\ \A t \in 1..MaxTimers : WF_vars(TimerStep(t))

\* The live bot after an earlier completion call, with a completion API that
\* answers with plain text: the rate limiter.
NextRate ==
    \/ \E sender \in Senders, age \in EventAges : Deliver("!bots", sender, age)
    \/ \E h \in DOMAIN handlers : RateWake(h)
    \/ \E h \in DOMAIN handlers : ApiSuccess(h, TextPizza)
    \/ \E h \in DOMAIN handlers, ok \in BOOLEAN : HandlerSent(h, ok)
    \/ Tick

RateSpec == InitRecentCall /\ [][NextRate]_vars

----------------------------------------------------------------------------
\* Properties of the router and the sync gate

InCall(h) == handlers[h].pc \in {"rate_wait", "api", "backoff"}
Returned(h) == handlers[h].pc \in {"sending", "done", "raised"}
Skipped(h) == handlers[h].pc \in {"dropped", "skip_self", "skip_old"}

\* C1: an event handled after the initial sync whose server timestamp is at or
\* before the cutoff is skipped before get_ai_response is entered: no completion
\* request is ever issued for it, whoever sent it.
C1_StaleEventNoRequest ==
    \A h \in Delivered :
        (handlers[h].live /\ handlers[h].old) =>
            /\ handlers[h].pc \in {"skip_self", "skip_old"}
            /\ handlers[h].nreq = 0

\* an event of another user stamped exactly at the cutoff was skipped, while a
\* newer one got its request
C1_Witness ==
    /\ since_connection = 0
    /\ \E h \in Delivered :
         /\ handlers[h].live /\ handlers[h].old
         /\ handlers[h].sender # Bot
         /\ handlers[h].pc = "skip_old"
    /\ \E h \in Delivered : handlers[h].nreq > 0

\* C2: no reply is sent for an event whose sender is the bot itself, also when
\* the bot's timer confirmations and expiry notifications come back to it.
C2_NoReplyToSelf ==
    \A h \in Delivered :
        handlers[h].sender = Bot =>
            /\ handlers[h].pc \in {"dropped", "skip_self"}
            /\ handlers[h].nreq = 0
            /\ handlers[h].nsend = 0
            /\ handlers[h].timer = 0

\* the bot has sent a timer confirmation and the timer's expiry notification,
\* and a new event of the bot itself has been skipped
C2_Witness ==
    /\ \E h \in Delivered : handlers[h].body.kind = "timer_set" /\ handlers[h].pc = "done"
    /\ \E t \in DOMAIN timers : timers[t].pc = "done"
    /\ \E h \in Delivered :
         /\ handlers[h].sender = Bot
         /\ ~handlers[h].old
         /\ handlers[h].pc = "skip_self"

\* C3: an event delivered before the initial sync is done is dropped: no
\* completion request, no timer, no room send, no error, and it stays dropped
\* after the router has become Live.
C3_PreSyncEventDropped ==
    \A h \in Delivered :
        ~handlers[h].live =>
            /\ handlers[h].pc = "dropped"
            /\ handlers[h].nreq = 0
            /\ handlers[h].nsend = 0
            /\ handlers[h].timer = 0

\* an event of another user was dropped before the sync completed, and the Live
\* router has since answered a later event
C3_Witness ==
    /\ initial_sync_done
    /\ \E h \in Delivered :
         /\ ~handlers[h].live
         /\ handlers[h].sender # Bot
         /\ handlers[h].pc = "dropped"
    /\ \E h \in Delivered : handlers[h].live /\ handlers[h].pc = "done"

\* C4: connection_timestamp is assigned exactly once: by whichever of
\* sync_callback and main's post-sync check runs first; the other one changes
\* nothing; initial_sync_done is true from that assignment on; and the cutoff is
\* set once main is past the post-sync check.
C4_CutoffSetOnce ==
    /\ cutoffWrites <= 1
    /\ initial_sync_done <=> cutoffWrites = 1
    /\ initial_sync_done <=> since_connection # NeverAge
    /\ mainPc \in {"startup_send", "forever", "crashed"} => initial_sync_done

\* sync_callback set the cutoff during the initial sync, main then passed its
\* post-sync check, and a later sync response reached sync_callback
C4_Witness ==
    /\ cutoffBy = "sync_callback"
    /\ mainPc = "forever"
    /\ since_connection = CutoffAgeCap

----------------------------------------------------------------------------
\* Properties of get_ai_response

\* message_callback passes the checks of lines 214-229 and calls get_ai_response
CallStarts(h) ==
    /\ handlers[h].pc = "none"
    /\ handlers'[h].pc \in {"rate_wait", "api", "sending"}

\* C5: the fifth consecutive rate-limit failure of a call sets in_cooldown with
\* the deadline 60 s after that failure; a call that starts before the deadline
\* returns the cooldown message without a request, then and later; a call that
\* starts at or after the deadline clears in_cooldown and goes on to its
\* rate-limit wait or its first request.
C5_Cooldown ==
    [][\A h \in DOMAIN handlers :
         /\ (ApiRateLimit(h) /\ handlers[h].nreq = max_retries) =>
               /\ in_cooldown'
               /\ cooldown_left' = cooldown_period
               /\ handlers'[h].body.kind = "cooldown_entry"
         /\ (CallStarts(h) /\ cooldown_left > 0) =>
               /\ handlers'[h].pc = "sending"
               /\ handlers'[h].body.kind = "cooldown"
               /\ handlers'[h].nreq = 0
               /\ UNCHANGED rateVars
         /\ (CallStarts(h) /\ cooldown_left = 0) =>
               /\ ~in_cooldown'
               /\ handlers'[h].pc \in {"rate_wait", "api"}
         /\ handlers[h].body.kind = "cooldown" => handlers'[h].nreq = 0
      ]_vars

\* one call has entered the cooldown on its fifth failure, and a call that
\* started when the 60 s were over has cleared the flag and issued a request
C5_Witness ==
    /\ \E h \in Delivered :
         handlers[h].body.kind = "cooldown_entry" /\ handlers[h].pc = "done"
    /\ \E h \in Delivered : handlers[h].pc = "api" /\ handlers[h].nreq = 1
    /\ ~in_cooldown
    /\ cooldown_left = 0

\* C6: while in_cooldown is set and the deadline is ahead, no handler issues a
\* completion request, the handlers that were already inside get_ai_response
\* when the cooldown was entered included.
C6_NoRequestInCooldown ==
    [][CooldownActive =>
          \A h \in DOMAIN handlers : handlers'[h].nreq = handlers[h].nreq]_vars

\* C7: when a handler sets last_api_call after another handler has set it, at
\* least min_delay_between_calls have passed since that earlier update.
C7_MinSpacing ==
    [][\A h \in DOMAIN handlers :
          ( /\ handlers[h].nreq = 0
            /\ handlers'[h].nreq = 1
            /\ \E g \in DOMAIN handlers : handlers[g].nreq > 0 )
          => since_last_call >= min_delay_between_calls]_vars

\* the strings get_ai_response returns (lines 164, 192, 204, 208)
ReplyKinds == {"api_text", "cooldown", "cooldown_entry", "api_error"}

\* C8: whatever the completion API answers, a get_ai_response call issues at
\* most max_retries requests, comes back to message_callback with one of its
\* four strings and not with an exception or None, and every call that has
\* started does come back.
C8_CallTerminates ==
    /\ [](\A h \in Delivered :
            /\ handlers[h].nreq <= max_retries
            /\ Returned(h) => handlers[h].body.kind \in ReplyKinds
            /\ handlers[h].body.kind # "None")
    /\ \A h \in 1..MaxEvents : InCall(h) ~> Returned(h)

\* a call has issued its fifth request after four rate-limit failures
C8_Witness ==
    \E h \in Delivered :
        /\ handlers[h].pc = "api"
        /\ handlers[h].nreq = max_retries
        /\ handlers[h].attempt = max_retries - 1

\* C9: a failure other than a rate limit makes the call return the error
\* message in the same step, after any number of earlier rate-limit retries: the
\* cooldown flag and deadline are left as they were, and the call issues no
\* request afterwards.
C9_ErrorReturnsAtOnce ==
    [][\A h \in DOMAIN handlers :
         /\ (handlers[h].pc = "api" /\ handlers'[h].body.kind = "api_error") =>
               /\ handlers'[h].pc = "sending"
               /\ handlers'[h].nreq = handlers[h].nreq
               /\ in_cooldown' = in_cooldown
               /\ cooldown_left' = cooldown_left
         /\ handlers[h].body.kind = "api_error" =>
               /\ handlers'[h].nreq = handlers[h].nreq
               /\ handlers'[h].pc \in {"sending", "done", "raised"}
      ]_vars

\* a call has returned the error message on its third attempt, outside any
\* cooldown
C9_Witness ==
    \E h \in Delivered :
        /\ handlers[h].body.kind = "api_error"
        /\ handlers[h].nreq = 3
        /\ ~in_cooldown

----------------------------------------------------------------------------
\* Properties of the timers

Fired(t) == timers[t].pc \in {"notifying", "done", "send_failed"}

\* C10: set_timer returns to message_callback in the step that creates the
\* task, with the whole duration still to sleep; a timer sends its 'Timer
\* expired!' notification to the room of its event once, not before its
\* duration is over, and does send it; when no timer is left to fire the
\* registry is empty.
C10_OneNotification ==
    /\ [][Len(timers') > Len(timers) =>
            LET t == Len(timers')
            IN /\ timers'[t].pc = "sleeping"
               /\ timers'[t].nsend = 0
               /\ \E h \in Delivered :
                     /\ handlers'[h].timer = t
                     /\ handlers'[h].pc = "sending"
                     /\ handlers'[h].room = timers'[t].room
                     /\ timers'[t].sleep_left % Hz = 0
                     /\ handlers'[h].body.text =
                           IntStr(timers'[t].sleep_left \div Hz)
                              \o <<" ", "s", "e", "c", "o", "n", "d", "s">>
         ]_vars
    /\ [](\A t \in DOMAIN timers :
            /\ timers[t].nsend = IF Fired(t) THEN 1 ELSE 0
            /\ timers[t].nsend = 1 => timers[t].sleep_left = 0)
    /\ []((\A t \in DOMAIN timers : Fired(t)) => active_timers = {})
    /\ \A t \in 1..MaxTimers :
          (t \in DOMAIN timers) ~> (t \in DOMAIN timers /\ timers[t].nsend = 1)

\* two timers that were given the same id have both sent their notification,
\* to different rooms, and the registry is empty
C10_Witness ==
    /\ Len(timers) = 2
    /\ timers[1].id = timers[2].id
    /\ timers[1].room # timers[2].room
    /\ \A t \in DOMAIN timers : timers[t].pc = "done" /\ timers[t].nsend = 1
    /\ active_timers = {}

----------------------------------------------------------------------------
\* Properties of the registry, the firing and the reply

Pending(t) == timers[t].pc = "sleeping"

\* C11: the entries of active_timers are exactly the timers that have been
\* scheduled and have not fired, each under its own id: every pending timer has
\* its entry, every entry is the one of a pending timer, and no two pending
\* timers share an id.
C11_RegistryMatchesPending ==
    /\ \A t \in DOMAIN timers :
          Pending(t) <=> [id |-> timers[t].id, task |-> t] \in active_timers
    /\ Cardinality(active_timers) = Cardinality({t \in DOMAIN timers : Pending(t)})
    /\ \A t, u \in DOMAIN timers :
          (Pending(t) /\ Pending(u) /\ t # u) => timers[t].id # timers[u].id

\* the steps of timer_handler, in the order of its code
TimerStages == {"sleeping", "particle", "notifying", "done", "send_failed"}

\* C12: a firing first removes the timer's entry and enters the device call
\* (which returns at once without credentials), then initiates the room
\* notification, after every outcome of the device call; a failed notification
\* is absorbed in timer_handler.
C12_FiringOrder ==
    [][\A t \in DOMAIN timers :
         /\ timers'[t].pc \in TimerStages
         /\ (Pending(t) /\ timers'[t].pc # "sleeping") =>
               /\ \A e \in active_timers' : e.id # timers[t].id
               /\ timers'[t].pc = IF particle_configured THEN "particle" ELSE "notifying"
         /\ timers[t].pc = "particle" => timers[t].nsend = 0
         /\ (timers[t].nsend = 0 /\ timers'[t].nsend = 1) =>
               /\ timers'[t].pc = "notifying"
               /\ timers[t].pc = IF particle_configured THEN "particle" ELSE "sleeping"
         /\ \A outcome \in ParticleOutcomes :
               ParticleReturn(t, outcome) =>
                  timers'[t].pc = "notifying" /\ timers'[t].nsend = 1
         /\ TimerNotified(t, FALSE) =>
               timers'[t].pc = "send_failed" /\ Running'
      ]_vars

\* with device credentials a timer has gone through the device call, its
\* notification send has failed, and the bot is still running
C12_Witness ==
    /\ particle_configured
    /\ Running
    /\ \E t \in DOMAIN timers :
         /\ timers[t].pc = "send_failed"
         /\ timers[t].nsend = 1
         /\ \A e \in active_timers : e.task # t

\* C13: when the completion reply of an eligible event is the directive of n
\* seconds, the same step calls set_timer(n, room of the event) once (one new
\* task, sleeping n seconds, for that room), stores its entry, and initiates the
\* send of 'Timer set for n seconds. ...' instead of the directive; the handler
\* never creates another timer.
C13_DirectiveSetsTimer ==
    [][\A h \in DOMAIN handlers :
         /\ \A text \in DirectiveTexts :
               ApiSuccess(h, text) =>
                  LET n == IF text = TextTimer0 THEN 0 ELSE 1
                      t == Len(timers')
                  IN /\ t = Len(timers) + 1
                     /\ timers'[t].room = handlers[h].room
                     /\ timers'[t].sleep_left = n * Hz
                     /\ timers'[t].pc = "sleeping"
                     /\ [id |-> timers'[t].id, task |-> t] \in active_timers'
                     /\ handlers'[h].pc = "sending"
                     /\ handlers'[h].nsend = 1
                     /\ handlers'[h].room = handlers[h].room
                     /\ handlers'[h].timer = t
                     /\ handlers'[h].body.kind = "timer_set"
                     /\ handlers'[h].body.text =
                           <<IF n = 0 THEN "0" ELSE "1", " ", "s", "e", "c", "o", "n", "d", "s">>
         /\ handlers[h].timer # 0 =>
               /\ handlers'[h].timer = handlers[h].timer
               /\ handlers'[h].body = handlers[h].body
               /\ \A g \in DOMAIN handlers : g # h => handlers'[g].timer # handlers[h].timer
      ]_vars

\* the confirmation of a timer of 1 second is being sent to the room of the
\* event while the timer sleeps and has its entry
C13_Witness ==
    \E h \in Delivered :
        /\ handlers[h].pc = "sending"
        /\ handlers[h].room = "!other"
        /\ handlers[h].body.kind = "timer_set"
        /\ handlers[h].body.text = <<"1", " ", "s", "e", "c", "o", "n", "d", "s">>
        /\ handlers[h].timer \in DOMAIN timers
        /\ timers[handlers[h].timer].room = "!other"
        /\ timers[handlers[h].timer].sleep_left = Hz
        /\ [id |-> timers[handlers[h].timer].id, task |-> handlers[h].timer] \in active_timers

\* C14: the reply '{"time":900}' is a directive of 900 seconds, the reply
\* '  {"time": 30}  ' is a directive of 30 seconds, and the replies 'I like
\* pizza' and '{"time":900} extra text' are sent to the room as they are.
C14_Classification ==
    [][\A h \in DOMAIN handlers, text \in ClassifyTexts :
          ApiSuccess(h, text) =>
             IF text \in {Text900, TextSpaced30}
             THEN /\ handlers'[h].body.kind = "timer_set"
                  /\ handlers'[h].body.text =
                        (IF text = Text900 THEN <<"9", "0", "0">> ELSE <<"3", "0">>)
                           \o <<" ", "s", "e", "c", "o", "n", "d", "s">>
                  /\ Len(timers') = Len(timers) + 1
                  /\ timers'[Len(timers')].sleep_left =
                        (IF text = Text900 THEN 900 ELSE 30) * Hz
             ELSE /\ handlers'[h].body.kind = "api_text"
                  /\ handlers'[h].body.text = text
                  /\ timers' = timers
      ]_vars

\* C15: a failure of the reply send is absorbed inside message_callback: no
\* handler ends with the exception of its room_send leaving it for the caller,
\* the sync loop.
C15_SendFailureAbsorbed ==
    \A h \in Delivered :
        handlers[h].nsend = 1 => handlers[h].pc \in {"sending", "done"}

\* C16: after a failed login main has returned with no callback registered
\* and no sync performed (no cutoff, no event delivered); after a failed join
\* main does not abort: it is not ended by an exception on its way through the
\* initial sync to sync_forever.
C16_OnlyLoginAborts ==
    /\ mainPc = "exited" =>
          /\ client_user_id = ""
          /\ ~initial_sync_done /\ cutoffWrites = 0
          /\ Delivered = {}
    /\ ~joined => mainPc # "crashed"

\* C17: a call that starts outside cooldown, elapsed after the last update of
\* last_api_call, sleeps r - elapsed for an r between min_delay and min_delay +
\* jitter when that is positive and does not sleep otherwise: between 2.5 s and
\* 4.5 s for elapsed = 0.5 s, not at all for elapsed >= 5 s; it is resumed when
\* exactly that time has passed, and it sets last_api_call when it is resumed
\* (or at once when it does not sleep), not when it starts to wait.
C17_RateDelay ==
    [][\A h \in DOMAIN handlers :
         /\ (CallStarts(h) /\ ~CooldownActive) =>
               LET elapsed == since_last_call
                   wait == handlers'[h].sleep_left
               IN /\ handlers'[h].pc \in {"rate_wait", "api"}
                  /\ handlers'[h].pc = "rate_wait" =>
                        /\ wait > 0
                        /\ wait >= min_delay_between_calls - elapsed
                        /\ wait <= min_delay_between_calls + jitter - elapsed
                        /\ since_last_call' = since_last_call
                        /\ handlers'[h].nreq = 0
                  /\ handlers'[h].pc = "api" =>
                        /\ elapsed >= min_delay_between_calls
                        /\ since_last_call' = 0
                  /\ elapsed * 2 = Hz =>
                        /\ handlers'[h].pc = "rate_wait"
                        /\ 2 * wait >= 5 * Hz
                        /\ 2 * wait <= 9 * Hz
                  /\ elapsed >= 5 * Hz => handlers'[h].pc = "api"
         /\ handlers[h].pc = "rate_wait" =>
               /\ handlers[h].sleep_left > 0 =>
                     /\ handlers'[h].pc = "rate_wait"
                     /\ handlers'[h].sleep_left \in
                           {handlers[h].sleep_left, handlers[h].sleep_left - 1}
                     /\ handlers'[h].sleep_left = handlers[h].sleep_left
                           <=> clock_phase' = clock_phase
               /\ handlers[h].sleep_left = 0 => clock_phase' = clock_phase
               /\ handlers'[h].pc # "rate_wait" =>
                     /\ handlers'[h].pc = "api"
                     /\ handlers'[h].nreq = 1
                     /\ since_last_call' = 0
      ]_vars

\* a call that started 0.5 s after the last update with the largest draw waits
\* 4.5 s, and last_api_call has not been touched
C17_Witness ==
    /\ 2 * since_last_call = Hz
    /\ \E h \in Delivered :
         /\ handlers[h].pc = "rate_wait"
         /\ 2 * handlers[h].sleep_left = 9 * Hz
         /\ handlers[h].nreq = 0
    /\ \A g \in DOMAIN handlers : handlers[g].nreq = 0

\* a timer between the removal of its entry and the end of its notification
Firing(t) == timers[t].pc \in {"particle", "notifying"}

\* C18: while a timer is firing, its device call in progress included, the
\* loop can take the other steps that are due: a new event can be delivered, a
\* completion that has arrived can be handled (and its timer scheduled), and
\* another timer whose sleep is over can fire.
C18_FiringDoesNotBlock ==
    \A t \in DOMAIN timers :
        Firing(t) =>
            /\ Cardinality(Delivered) < MaxEvents =>
                  ENABLED Deliver("!bots", "@alice:matrix.org", 0)
            /\ \A h \in DOMAIN handlers :
                  (handlers[h].pc = "api" /\ Len(timers) < MaxTimers) =>
                     ENABLED ApiSuccess(h, TextTimer1)
            /\ \A u \in DOMAIN timers :
                  (Pending(u) /\ timers[u].sleep_left = 0) => ENABLED TimerExpire(u)

\* the outbound texts of message_callback (lines 234, 248)
SentKinds == ReplyKinds \cup {"timer_set"}

Creators(t) == {h \in DOMAIN handlers : handlers[h].timer = t}

\* C20: the step that creates a timer, of 0 seconds too, leaves its task not
\* yet run with its entry stored and the creating handler's 'Timer set ...'
\* send initiated; so every timer that exists, and every firing that starts,
\* has its confirmation send initiated before.
C20_ConfirmationFirst ==
    /\ [](\A t \in DOMAIN timers :
            \E h \in Creators(t) :
               /\ handlers[h].nsend = 1
               /\ handlers[h].body.kind = "timer_set"
               /\ handlers[h].pc \in {"sending", "done", "raised"})
    /\ [][/\ Len(timers') > Len(timers) =>
               LET t == Len(timers')
               IN /\ timers'[t].pc = "sleeping"
                  /\ timers'[t].nsend = 0
                  /\ [id |-> timers'[t].id, task |-> t] \in active_timers'
                  /\ \E h \in DOMAIN handlers :
                        /\ handlers[h].pc = "api"
                        /\ handlers'[h].timer = t
                        /\ handlers'[h].pc = "sending"
          /\ \A t \in DOMAIN timers :
               (Pending(t) /\ ~Pending(t)') =>
                  \E h \in Creators(t) : handlers[h].nsend = 1
         ]_vars

\* a timer of 0 seconds sends its expiry notification while the confirmation
\* of its creating handler is still being sent
C20_Witness ==
    \E t \in DOMAIN timers :
        /\ timers[t].pc = "notifying"
        /\ timers[t].nsend = 1
        /\ \E h \in Creators(t) :
              /\ handlers[h].pc = "sending"
              /\ handlers[h].body.text = <<"0", " ", "s", "e", "c", "o", "n", "d", "s">>

====
